---- MODULE Spec2Model ----
(***************************************************************************)
(* wall-switch (src/src/main.rs): a wallpaper rotation daemon.  main       *)
(* discovers the images under the given roots, registers a SIGUSR1         *)
(* listener, runs one rotation cycle and then loops: wait for the interval *)
(* timer or a SIGUSR1 notification, run a rotation cycle.  A rotation      *)
(* cycle (change_wallpaper_once) probes the displayed wallpaper with       *)
(* `swww query`, selects a random image other than the probed one and      *)
(* applies it with `swww img`.                                             *)
(*                                                                         *)
(* Option<PathBuf> is modelled as a string: NoPath is None, any other      *)
(* string p is Some(p).  The random choices of rand and the behaviour of   *)
(* the external tool are nondeterministic choices.                         *)
(***************************************************************************)
EXTENDS Integers, Sequences, FiniteSets

VARIABLES
    pc,                 \* position of main: "start", "register", "probe",
                        \* "select", "decide", "apply", "waiting", "exit_err"
    image_paths,        \* cli.image_paths, the roots given on the command line
    images,             \* the catalog returned by discover_images
    current_wallpaper,  \* local of change_wallpaper_once (NoPath: None / not in scope)
    new_wallpaper,      \* result of select_random_image (NoPath: None / not in scope)
    last_probe,         \* outcome of this cycle's get_current_wallpaper call
    last_apply,         \* outcome of the most recent set_wallpaper call, as logged
    sigPending,         \* sigusr1_stream holds a notification not yet received
    deadline,           \* ticks left until sleep_fut completes
    waited,             \* ticks elapsed since the current wait began
    lastWake,           \* what started the current/most recent cycle
    sigsInWait,         \* signals delivered during the current/most recent wait
    sigsInCycle,        \* signals delivered during the current/most recent cycle
    carried,            \* a notification was already pending when the wait began
    query_reports,      \* the image named by the output of this cycle's query
                        \* (NoPath: none, or the query failed), until the selection
    tool_calls,         \* the invocations of the external tool in the current/most
                        \* recent cycle, in order
    cyclesMinusWaits,   \* rotation cycles started minus waits ended, so far
    last_applied        \* history kept in RepeatSpec: the image of the most recent
                        \* successful apply (NoPath: none yet)

vars == <<pc, image_paths, images, current_wallpaper, new_wallpaper, last_probe,
          last_apply, sigPending, deadline, waited, lastWake, sigsInWait, sigsInCycle, carried,
          query_reports, tool_calls, cyclesMinusWaits, last_applied>>

(***************************************************************************)
(* Bounds                                                                  *)
(***************************************************************************)
\* longest list of roots on the command line
MaxRoots == 2
\* most signals delivered during one wait, and during one cycle
MaxSignals == 2
\* cli.interval_in_secs, in ticks
Interval == 2

NoPath == "<none>"

Range(s) == {s[i] : i \in 1..Len(s)}

SeqsUpTo(S, n) == UNION {[1..k -> S] : k \in 0..n}

(***************************************************************************)
(* The file system the roots are drawn from.  WalkDir(root) is the         *)
(* sequence of entries walkdir yields for root, in traversal order; an     *)
(* entry with ok = FALSE is a traversal error (a broken link).  pics/album  *)
(* is a symbolic link to pics/sub, which follow_links(true) descends into. *)
(***************************************************************************)
NoExt == "<noext>"

\* an image whose file name holds the text of the query output's marker
OddPath == "pics/currently displaying: image: x.png"

Roots == {"solo", "pics", "gone", "solo/a.jpg"}

FsExists(p) == p \in {"solo", "pics", "solo/a.jpg"}

FsIsDir(p) == p \in {"solo", "pics"}

Entry(p, f, e) == [ok |-> TRUE, path |-> p, is_file |-> f, ext |-> e]

ErrEntry == [ok |-> FALSE, path |-> NoPath, is_file |-> FALSE, ext |-> NoExt]

WalkDir(root) ==
    CASE root = "solo" -> << Entry("solo", FALSE, NoExt),
                             Entry("solo/a.jpg", TRUE, "jpg") >>
      [] root = "pics" -> << Entry("pics", FALSE, NoExt),
                             Entry("pics/b.PNG", TRUE, "PNG"),
                             Entry("pics/notes.txt", TRUE, "txt"),
                             ErrEntry,
                             Entry("pics/sub", FALSE, NoExt),
                             Entry("pics/sub/c.gif", TRUE, "gif"),
                             Entry("pics/sub/README", TRUE, NoExt),
                             Entry("pics/album", FALSE, NoExt),
                             Entry("pics/album/c.gif", TRUE, "gif"),
                             Entry("pics/album/README", TRUE, NoExt),
                             Entry(OddPath, TRUE, "png") >>
      [] OTHER -> << >>

image_extensions == {"jpg", "jpeg", "png", "gif", "bmp", "webp", "tiff", "tif"}

to_lowercase(e) ==
    CASE e = "PNG" -> "png"
      [] e = "JPG" -> "jpg"
      [] e = "GIF" -> "gif"
      [] OTHER -> e

\* lines 57-65: the entry is a file whose lower-cased extension is recognised
IsImageEntry(en) ==
    /\ en.ok
    /\ en.is_file
    /\ en.ext # NoExt
    /\ to_lowercase(en.ext) \in image_extensions

RECURSIVE WalkImages(_)
WalkImages(entries) ==
    IF entries = << >> THEN << >>
    ELSE LET rest == WalkImages(Tail(entries))
         IN  IF IsImageEntry(Head(entries))
             THEN <<Head(entries).path>> \o rest
             ELSE rest

\* lines 33-76: roots that do not exist or are no directory are skipped
RECURSIVE discover_images(_)
discover_images(paths) ==
    IF paths = << >> THEN << >>
    ELSE LET p == Head(paths)
             rest == discover_images(Tail(paths))
         IN  IF ~FsExists(p) THEN rest
             ELSE IF ~FsIsDir(p) THEN rest
             ELSE WalkImages(WalkDir(p)) \o rest

\* lines 185-187: an empty catalog is fatal
CatalogFatalNever(imgs) == FALSE

CatalogFatal(imgs) == imgs = << >>

(***************************************************************************)
(* The external tool.  An invocation either cannot be launched, or exits   *)
(* with a status and its captured standard output.  The output of `swww    *)
(* query` is a sequence of lines; a line is given as the sequence of the   *)
(* pieces that line.split("currently displaying: image: ") yields (one     *)
(* piece: the marker does not occur), a piece being a text with or without *)
(* surrounding whitespace.                                                 *)
(***************************************************************************)
ReportedPaths == {"solo/a.jpg", "pics/b.PNG", "pics/sub/c.gif", "/tmp/other.png"}

Piece(t, w) == [text |-> t, ws |-> w]

trim(piece) == piece.text

NoMarkerLine == << Piece("swww: no image", FALSE) >>

MarkerLine(p, w) == << Piece("DP-1: 2560x1080, scale: 2,", TRUE), Piece(p, w) >>

\* the line that reports OddPath: the marker occurs in it twice and the
\* split of line 94 cuts it into three pieces
MarkerTwiceLine ==
    << Piece("DP-1: 2560x1080, scale: 2,", TRUE), Piece("pics/", FALSE),
       Piece("x.png", FALSE) >>

QueryStdouts ==
    { << >>, << NoMarkerLine >>, << MarkerTwiceLine >> }
        \cup { << MarkerLine(p, w) >> : p \in ReportedPaths, w \in BOOLEAN }
        \cup { << NoMarkerLine, MarkerLine(p, TRUE) >> : p \in ReportedPaths }
        \cup { << MarkerLine(p, FALSE), MarkerLine(q, FALSE) >> :
                    p \in ReportedPaths, q \in ReportedPaths }

QueryOutcomes ==
    { [launched |-> FALSE, success |-> FALSE, stdout |-> << >>],
      [launched |-> TRUE, success |-> FALSE, stdout |-> << >>] }
        \cup { [launched |-> TRUE, success |-> TRUE, stdout |-> o] : o \in QueryStdouts }

ImgOutcomes ==
    { [launched |-> FALSE, success |-> FALSE],
      [launched |-> TRUE, success |-> FALSE],
      [launched |-> TRUE, success |-> TRUE] }

\* line 94: the marker the lines are split on
Marker == "currently displaying: image: "

\* the text that the pieces of a split were cut from
RECURSIVE Rejoin(_)
Rejoin(pieces) ==
    IF Len(pieces) = 1 THEN trim(pieces[1])
    ELSE trim(pieces[1]) \o Marker \o Rejoin(Tail(pieces))

HasMarker(line) == Len(line) >= 2

\* everything that follows the first occurrence of the marker in the line
TrailingFragment(line) == Rejoin(Tail(line))

FirstMarkerLine(lines) ==
    lines[CHOOSE i \in 1..Len(lines) :
            HasMarker(lines[i]) /\ \A j \in 1..(i - 1) : ~HasMarker(lines[j])]

\* the image the output of the query names: what follows the first marker of
\* the first line that holds the marker; NoPath when no line holds it
Reports(lines) ==
    IF \E i \in 1..Len(lines) : HasMarker(lines[i])
    THEN TrailingFragment(FirstMarkerLine(lines))
    ELSE NoPath

\* lines 93-99: the first line in which the marker occurs gives the result
RECURSIVE ParseQuery(_)
ParseQuery(lines) ==
    IF lines = << >> THEN NoPath
    ELSE IF Len(Head(lines)) >= 2 THEN trim(Head(lines)[2])
    ELSE ParseQuery(Tail(lines))

\* lines 79-100: Result<Option<PathBuf>>; err names the failure
get_current_wallpaper(out) ==
    IF ~out.launched THEN [ok |-> FALSE, err |-> "launch_err", val |-> NoPath]
    ELSE IF ~out.success THEN [ok |-> FALSE, err |-> "nonzero", val |-> NoPath]
    ELSE [ok |-> TRUE, err |-> "ok", val |-> ParseQuery(out.stdout)]

\* lines 104-115: a failed probe is logged and the cycle goes on with None
ProbedCurrent(r) == IF r.ok THEN r.val ELSE NoPath

\* lines 134-154: Result<()>, as "ok" or the failure
set_wallpaper(image_path, out) ==
    IF ~out.launched THEN "launch_err"
    ELSE IF ~out.success THEN "nonzero"
    ELSE "ok"

ApplyFailures == {"launch_err", "nonzero"}

\* a choice that always takes the first element
chooseFirst(s) == IF s = << >> THEN {NoPath} ELSE {s[1]}

\* slice::choose: None on an empty slice, else any element
choose(s) == IF s = << >> THEN {NoPath} ELSE Range(s)

\* a filter that drops the first image when nothing equals the current one
NotCurrentDropsOne(imgs, current) ==
    LET kept == SelectSeq(imgs, LAMBDA img : img # current)
    IN  IF Len(kept) = Len(imgs) /\ imgs # << >> THEN Tail(imgs) ELSE kept

NotCurrent(imgs, current) == SelectSeq(imgs, LAMBDA img : img # current)

\* a selection that never filters out the current wallpaper
select_unfiltered(imgs, current) == choose(imgs)

\* a selection without the single-image and the all-equal fallbacks
select_filter_only(imgs, current) ==
    IF current = NoPath THEN choose(imgs) ELSE choose(NotCurrent(imgs, current))

\* lines 157-176: the set of values the call may return
select_random_image(imgs, current) ==
    IF Len(imgs) <= 1 \/ current = NoPath THEN choose(imgs)
    ELSE LET candidates == NotCurrent(imgs, current)
         IN  IF candidates = << >> THEN {current} ELSE choose(candidates)

\* line 120 without the check
ShouldApplyAlways(current, new) == TRUE

\* the guard of line 120 never letting the setter run
ShouldApplyNever(current, new) == FALSE

\* line 120: current_wallpaper.as_ref() != Some(&new_wallpaper)
ShouldApply(current, new) == current # new

\* lines 121-123 with a failed apply tried again at once
OnApplyResultRetry(r) == IF r = "ok" THEN "waiting" ELSE "apply"

\* lines 121-123 with a failed apply starting the cycle over
OnApplyResultRestart(r) == IF r = "ok" THEN "waiting" ELSE "probe"

\* lines 121-123 with the error propagated instead of logged
OnApplyResultAbort(r) == IF r = "ok" THEN "waiting" ELSE "exit_err"

\* lines 121-123: an Err is logged; change_wallpaper_once returns either way
OnApplyResult(r) == "waiting"

\* lines 104-115 with the error ending the cycle
OnProbeResultAbort(r) == IF r.ok THEN "select" ELSE "waiting"

\* lines 104-115: both arms of the match go on to the selection
OnProbeResult(r) == "select"

(***************************************************************************)
(* The two event sources of the loop.  sleep(d) is the time left on a      *)
(* timer created now.  The listener is created once (line 193) and holds   *)
(* at most one notification: notify is the delivery of a SIGUSR1 to it,    *)
(* recv the receipt of the notification by the select! of line 213.        *)
(***************************************************************************)
\* a timer that is not created anew: it has expired already
sleepStale(d) == 0

\* line 206
sleep(d) == d

\* line 193: notifications coalesce
notify(pending) == TRUE

\* a receipt that leaves the notification in place
recvKeeps(pending) == pending

\* line 213: the receipt consumes the notification
recv(pending) == FALSE

CyclePcs == {"probe", "select", "decide", "apply"}

\* signals sent before the listener exists are not modelled
ListeningPcs == CyclePcs \cup {"waiting"}

\* 1 in a step that calls change_wallpaper_once (lines 197 and 218), else 0
Started == IF pc' = "probe" /\ pc # "probe" THEN 1 ELSE 0

\* 1 in a step in which the select! of lines 209-216 completes, else 0
Ended == IF pc = "waiting" /\ pc' # "waiting" THEN 1 ELSE 0

(***************************************************************************)
(* Initial state: the command line has been parsed (clap requires at least *)
(* one root).                                                              *)
(***************************************************************************)
Init ==
    /\ pc = "start"
    /\ image_paths \in SeqsUpTo(Roots, MaxRoots) \ {<< >>}
    /\ images = << >>
    /\ current_wallpaper = NoPath
    /\ new_wallpaper = NoPath
    /\ last_probe = "none"
    /\ last_apply = "none"
    /\ sigPending = FALSE
    /\ deadline = 0
    /\ waited = 0
    /\ lastWake = "startup"
    /\ sigsInWait = 0
    /\ sigsInCycle = 0
    /\ carried = FALSE
    /\ query_reports = NoPath
    /\ tool_calls = << >>
    /\ cyclesMinusWaits = 0
    /\ last_applied = NoPath

\* lines 183-190
Discover ==
    /\ pc = "start"
    /\ images' = discover_images(image_paths)
    /\ pc' = IF CatalogFatal(images') THEN "exit_err" ELSE "register"
    /\ UNCHANGED <<image_paths, current_wallpaper, new_wallpaper, last_probe, last_apply,
                   sigPending, deadline, waited, lastWake, sigsInWait, sigsInCycle,
                   carried, query_reports, tool_calls, cyclesMinusWaits,
                   last_applied>>

\* lines 193-197: a failed registration is fatal; else the initial cycle starts
Register ==
    /\ pc = "register"
    /\ \E registered \in BOOLEAN :
          pc' = IF registered THEN "probe" ELSE "exit_err"
    /\ UNCHANGED <<image_paths, images, current_wallpaper, new_wallpaper, last_probe,
                   last_apply, sigPending, deadline, waited, lastWake, sigsInWait,
                   sigsInCycle, carried, query_reports>>
    /\ tool_calls' = << >>
    /\ cyclesMinusWaits' = cyclesMinusWaits + Started
    /\ UNCHANGED last_applied

\* lines 104-115
ProbeStep ==
    /\ pc = "probe"
    /\ \E out \in QueryOutcomes :
          LET r == get_current_wallpaper(out)
          IN  /\ current_wallpaper' = ProbedCurrent(r)
              /\ last_probe' = r.err
              /\ pc' = OnProbeResult(r)
              /\ query_reports' = IF out.launched /\ out.success
                                   THEN Reports(out.stdout) ELSE NoPath
    /\ tool_calls' = Append(tool_calls, "query")
    /\ cyclesMinusWaits' = cyclesMinusWaits + Started
    /\ UNCHANGED last_applied
    /\ UNCHANGED <<image_paths, images, new_wallpaper, last_apply, sigPending, deadline,
                   waited, lastWake, sigsInWait, sigsInCycle, carried>>

\* line 118: the call of select_random_image
SelectStep ==
    /\ pc = "select"
    /\ new_wallpaper' \in select_random_image(images, current_wallpaper)
    /\ pc' = "decide"
    /\ query_reports' = NoPath
    /\ UNCHANGED <<image_paths, images, current_wallpaper, last_probe, last_apply,
                   sigPending, deadline, waited, lastWake, sigsInWait, sigsInCycle,
                   carried, tool_calls, cyclesMinusWaits,
                   last_applied>>

\* a return that keeps the image handed to the setter as the current selection
BeginWaitBelievesApplied ==
    /\ current_wallpaper' = new_wallpaper
    /\ new_wallpaper' = NoPath
    /\ last_probe' = "none"
    /\ deadline' = sleep(Interval)
    /\ waited' = 0
    /\ sigsInWait' = 0
    /\ carried' = sigPending

\* change_wallpaper_once returns, its locals go out of scope, and the loop
\* arms its timer: lines 130 and 200-207
BeginWait ==
    /\ current_wallpaper' = NoPath
    /\ new_wallpaper' = NoPath
    /\ last_probe' = "none"
    /\ deadline' = sleep(Interval)
    /\ waited' = 0
    /\ sigsInWait' = 0
    /\ carried' = sigPending

\* lines 118-129: apply, skip (the selection is the current image) or warn (None)
DecideStep ==
    /\ pc = "decide"
    /\ IF new_wallpaper # NoPath /\ ShouldApply(current_wallpaper, new_wallpaper)
       THEN /\ pc' = "apply"
            /\ UNCHANGED <<current_wallpaper, new_wallpaper, last_probe, deadline,
                           waited, sigsInWait, carried>>
       ELSE /\ pc' = "waiting"
            /\ BeginWait
    /\ cyclesMinusWaits' = cyclesMinusWaits + Started
    /\ UNCHANGED last_applied
    /\ UNCHANGED <<image_paths, images, last_apply, sigPending, lastWake, sigsInCycle,
                   query_reports, tool_calls>>

\* lines 121-123 and 134-154: set_wallpaper runs, its result is logged
ApplyRun ==
    /\ pc = "apply"
    /\ \E out \in ImgOutcomes :
          /\ last_apply' = set_wallpaper(new_wallpaper, out)
          /\ pc' = OnApplyResult(last_apply')
    /\ BeginWait
    /\ tool_calls' = Append(tool_calls, "img")
    /\ cyclesMinusWaits' = cyclesMinusWaits + Started
    /\ UNCHANGED <<image_paths, images, sigPending, lastWake, sigsInCycle, query_reports>>

ApplyStep ==
    /\ ApplyRun
    /\ UNCHANGED last_applied

\* ApplyStep with the history of successful applies kept
ApplyStepTracked ==
    /\ ApplyRun
    /\ last_applied' = IF last_apply' = "ok" THEN new_wallpaper ELSE last_applied

\* one tick of the interval passes during the wait
Tick ==
    /\ pc = "waiting"
    /\ deadline > 0
    /\ deadline' = deadline - 1
    /\ waited' = waited + 1
    /\ UNCHANGED <<pc, image_paths, images, current_wallpaper, new_wallpaper, last_probe,
                   last_apply, sigPending, lastWake, sigsInWait, sigsInCycle, carried,
                   query_reports, tool_calls, cyclesMinusWaits,
                   last_applied>>

\* a SIGUSR1 reaches the process
SignalDeliver ==
    /\ pc \in ListeningPcs
    /\ sigPending' = notify(sigPending)
    /\ IF pc = "waiting"
       THEN /\ sigsInWait < MaxSignals
            /\ sigsInWait' = sigsInWait + 1
            /\ UNCHANGED sigsInCycle
       ELSE /\ sigsInCycle < MaxSignals
            /\ sigsInCycle' = sigsInCycle + 1
            /\ UNCHANGED sigsInWait
    /\ UNCHANGED <<pc, image_paths, images, current_wallpaper, new_wallpaper, last_probe,
                   last_apply, deadline, waited, lastWake, carried, query_reports,
                   tool_calls, cyclesMinusWaits,
                   last_applied>>

\* lines 210-212 and 218: the timer branch of select!
WakeOnTimer ==
    /\ pc = "waiting"
    /\ deadline = 0
    /\ pc' = "probe"
    /\ lastWake' = "timer"
    /\ sigsInCycle' = 0
    /\ UNCHANGED <<image_paths, images, current_wallpaper, new_wallpaper, last_probe,
                   last_apply, sigPending, deadline, waited, sigsInWait, carried,
                   query_reports>>
    /\ tool_calls' = << >>
    /\ cyclesMinusWaits' = cyclesMinusWaits + Started - Ended
    /\ UNCHANGED last_applied

\* the signal branch taken only once the timer has expired
WakeOnSignalAtExpiry ==
    /\ pc = "waiting"
    /\ sigPending
    /\ deadline = 0
    /\ sigPending' = recv(sigPending)
    /\ pc' = "probe"
    /\ lastWake' = "signal"
    /\ sigsInCycle' = 0
    /\ UNCHANGED <<image_paths, images, current_wallpaper, new_wallpaper, last_probe,
                   last_apply, deadline, waited, sigsInWait, carried, query_reports>>
    /\ tool_calls' = << >>
    /\ cyclesMinusWaits' = cyclesMinusWaits + Started - Ended
    /\ UNCHANGED last_applied

\* lines 213-215 and 218: the signal branch of select!
WakeOnSignal ==
    /\ pc = "waiting"
    /\ sigPending
    /\ sigPending' = recv(sigPending)
    /\ pc' = "probe"
    /\ lastWake' = "signal"
    /\ sigsInCycle' = 0
    /\ UNCHANGED <<image_paths, images, current_wallpaper, new_wallpaper, last_probe,
                   last_apply, deadline, waited, sigsInWait, carried, query_reports>>
    /\ tool_calls' = << >>
    /\ cyclesMinusWaits' = cyclesMinusWaits + Started - Ended
    /\ UNCHANGED last_applied

Next ==
    \/ Discover
    \/ Register
    \/ ProbeStep
    \/ SelectStep
    \/ DecideStep
    \/ ApplyStep
    \/ Tick
    \/ SignalDeliver
    \/ WakeOnTimer
    \/ WakeOnSignal

Spec == Init /\ [][Next]_vars

(***************************************************************************)
(* The program in an environment where, once an apply has succeeded,       *)
(* `swww query` succeeds and reports the image most recently applied       *)
(* successfully, which the history last_applied records in this            *)
(* specification.                                                          *)
(***************************************************************************)
QueryReportsApplied ==
    last_applied # NoPath
        => (last_probe' = "ok" /\ query_reports' = last_applied)

RepeatNext ==
    \/ Discover
    \/ Register
    \/ ProbeStep /\ QueryReportsApplied
    \/ SelectStep
    \/ DecideStep
    \/ ApplyStepTracked
    \/ Tick
    \/ SignalDeliver
    \/ WakeOnTimer
    \/ WakeOnSignal

RepeatSpec == Init /\ [][RepeatNext]_vars

(***************************************************************************)
(* The scheduler with a fair timer: time passes during a wait, so the      *)
(* timer expires; the task is woken by what is ready and every invocation  *)
(* of the external tool returns.  Nothing is assumed of signals.           *)
(***************************************************************************)
TimerFairSpec ==
    /\ Spec
    /\ WF_vars(Tick)
    /\ WF_vars(WakeOnTimer)
    /\ WF_vars(WakeOnSignal)
    /\ WF_vars(ProbeStep)
    /\ WF_vars(SelectStep)
    /\ WF_vars(DecideStep)
    /\ WF_vars(ApplyStep)

(***************************************************************************)
(* The scheduler reacts to what is ready: a pending notification or an     *)
(* expired timer wakes the task, and the external tool returns.  Nothing   *)
(* is assumed of the passage of time or of the arrival of signals.         *)
(***************************************************************************)
SignalFairSpec ==
    /\ Spec
    /\ WF_vars(WakeOnSignal)
    /\ WF_vars(WakeOnTimer)
    /\ WF_vars(ProbeStep)
    /\ WF_vars(SelectStep)
    /\ WF_vars(DecideStep)
    /\ WF_vars(ApplyStep)

(***************************************************************************)
(* Claims                                                                  *)
(***************************************************************************)
Distinct(imgs) == Cardinality(Range(imgs))

\* C1 as stated: once select_random_image has returned for a catalog of size
\* >= 2 and a known current selection that is in the catalog, the result is
\* not the current selection.
C1_AsStated ==
    (/\ pc = "decide"
     /\ Len(images) >= 2
     /\ current_wallpaper # NoPath
     /\ current_wallpaper \in Range(images))
        => new_wallpaper # current_wallpaper

\* C1 without repeated discovery: for a catalog of size >= 2 holding two distinct
\* paths and a known current selection that is in the catalog, the result of
\* select_random_image is an image other than the current selection.
C1_SelectAvoidsCurrent ==
    (/\ pc = "decide"
     /\ Len(images) >= 2
     /\ Distinct(images) >= 2
     /\ current_wallpaper # NoPath
     /\ current_wallpaper \in Range(images))
        => (new_wallpaper # current_wallpaper /\ new_wallpaper \in Range(images))

\* C1 witness: a catalog with a repeated path and two distinct ones, the
\* current selection in it, and another image selected.
C1_Witness ==
    /\ pc = "decide"
    /\ Len(images) > Distinct(images)
    /\ Distinct(images) >= 2
    /\ current_wallpaper \in Range(images)
    /\ new_wallpaper \in Range(images)
    /\ new_wallpaper # current_wallpaper

\* C2: whenever the setter is invoked in a cycle whose probe returned a known
\* current image, the image it is invoked with is in the catalog and is not
\* the probed current image.
C2_SetterNeverGetsCurrent ==
    (pc = "apply" /\ current_wallpaper # NoPath)
        => (new_wallpaper \in Range(images) /\ new_wallpaper # current_wallpaper)

\* C2 witness: the catalog of the roots solo and pics, current a, the setter
\* invoked with b.
C2_Witness ==
    /\ pc = "apply"
    /\ images = discover_images(<< "solo", "pics" >>)
    /\ Distinct(images) = Len(images)
    /\ current_wallpaper = "solo/a.jpg"
    /\ new_wallpaper = "pics/b.PNG"

\* C3: when the scheduler is waiting and a SIGUSR1 notification is pending, a
\* new rotation cycle starts, whatever is left of the interval and whether or
\* not the timer ever expires.
C3_SignalEndsWait ==
    (pc = "waiting" /\ sigPending) ~> (pc = "probe")

\* C3 witness: a cycle started by a signal received during the wait, with the
\* whole interval still to run.
C3_Witness ==
    /\ pc = "probe"
    /\ lastWake = "signal"
    /\ sigsInWait > 0
    /\ ~carried
    /\ waited = 0
    /\ deadline = Interval

\* C4 as stated: an apply failure is followed by a cycle that attempts an
\* apply again, so a cycle that follows a failed apply always goes from its
\* selection on to the apply step.
C4_AsStated ==
    [][(last_apply \in ApplyFailures /\ pc = "decide" /\ pc' # "decide")
           => pc' = "apply"]_vars

\* C4 amended: a failed apply never aborts the scheduler: the cycle ends, the
\* scheduler is waiting again, and the next trigger starts a full rotation
\* cycle (probe, selection, decision), which attempts an apply again unless
\* its selection equals the image its probe returned.
C4_FailedApplyContinues ==
    [][/\ (pc = "apply" /\ pc' # "apply" /\ last_apply' \in ApplyFailures)
            => pc' = "waiting"
       /\ (last_apply \in ApplyFailures /\ pc = "waiting" /\ pc' # "waiting")
            => pc' = "probe"
       /\ (last_apply \in ApplyFailures /\ pc = "probe" /\ pc' # "probe")
            => pc' = "select"
       /\ (last_apply \in ApplyFailures /\ pc = "select" /\ pc' # "select")
            => pc' = "decide"
       /\ (last_apply \in ApplyFailures /\ pc = "decide" /\ pc' # "decide")
            => \/ pc' = "apply"
               \/ (pc' = "waiting" /\ new_wallpaper = current_wallpaper)]_vars

\* C4 witness: the setter is invoked again in a cycle that follows a failed
\* apply.
C4_Witness ==
    /\ pc = "apply"
    /\ last_apply \in ApplyFailures
    /\ lastWake \in {"timer", "signal"}

\* C5: the step in which set_wallpaper reports a non-zero exit of the tool
\* leaves what the scheduler carries into the next cycle as it was: the
\* catalog, the configuration and the listener; no belief about the current
\* selection is kept.
C5_FailedApplyFrame ==
    [][(pc = "apply" /\ pc' # "apply" /\ last_apply' = "nonzero")
           => /\ pc' = "waiting"
              /\ images' = images
              /\ image_paths' = image_paths
              /\ sigPending' = sigPending
              /\ lastWake' = lastWake
              /\ current_wallpaper' = NoPath
              /\ new_wallpaper' = NoPath]_vars

\* C5 witness: the scheduler is waiting after an apply that exited non-zero,
\* with no current selection kept.
C5_Witness ==
    /\ pc = "waiting"
    /\ last_apply = "nonzero"
    /\ current_wallpaper = NoPath
    /\ Len(images) >= 2

ProbeFailures == {"launch_err", "nonzero"}

\* C6: after a failed probe the cycle goes on with current = None: the
\* selection may return any image of the catalog and nothing else, and the
\* setter is invoked with the image selected.
C6_ProbeFailureContinues ==
    [][/\ last_probe \in ProbeFailures
            => /\ pc \in {"select", "decide", "apply"}
               /\ current_wallpaper = NoPath
               /\ pc = "select"
                    => select_random_image(images, current_wallpaper) = Range(images)
               /\ pc \in {"decide", "apply"} => new_wallpaper \in Range(images)
       /\ (last_probe \in ProbeFailures /\ pc = "decide" /\ pc' # "decide")
            => (pc' = "apply" /\ new_wallpaper' = new_wallpaper)]_vars

\* C6 witness: the setter is invoked in a cycle whose probe failed.
C6_Witness ==
    /\ pc = "apply"
    /\ last_probe \in ProbeFailures
    /\ current_wallpaper = NoPath
    /\ new_wallpaper \in Range(images)

\* C7: for a catalog of size 1 select_random_image returns its single
\* element, whatever the current selection is.
C7_SingleImage ==
    (pc = "decide" /\ Len(images) = 1) => new_wallpaper = images[1]

\* C7 witness: a catalog of size 1, a known current selection that is not its
\* element, and the element selected.
C7_Witness ==
    /\ pc = "decide"
    /\ Len(images) = 1
    /\ current_wallpaper \notin {NoPath, images[1]}
    /\ new_wallpaper = images[1]

\* C8: with an empty catalog the process has exited with a failure and no
\* probe or apply has run; the catalog is non-empty wherever a rotation cycle
\* or a wait is.
C8_EmptyCatalogFatal ==
    /\ pc \in (CyclePcs \cup {"register", "waiting"}) => images # << >>
    /\ (pc # "start" /\ images = << >>)
            => (pc = "exit_err" /\ last_probe = "none" /\ last_apply = "none")

\* C8 witness: the process has exited with a failure on an empty catalog.
C8_Witness ==
    /\ pc = "exit_err"
    /\ images = << >>
    /\ image_paths = << "gone", "solo/a.jpg" >>

\* C9: the signals delivered during a wait start at most one cycle: once a
\* signal has ended a wait, no notification is left, however many signals
\* came, unless another signal is delivered after that.
C9_FloodStartsOneCycle ==
    /\ (pc \in CyclePcs /\ lastWake = "signal" /\ sigsInCycle = 0) => ~sigPending
    /\ (pc = "waiting" /\ lastWake = "signal" /\ sigsInCycle = 0 /\ sigsInWait = 0)
            => ~sigPending

\* C9 witness: a cycle started by a wait during which two or more signals
\* were delivered, with no notification left.
C9_Witness ==
    /\ pc \in CyclePcs
    /\ lastWake = "signal"
    /\ sigsInWait >= 2
    /\ sigsInCycle = 0
    /\ ~carried
    /\ ~sigPending

\* C10 as stated: a wait is ended only by its own timer or by a signal that
\* occurred during that same wait.
C10_AsStated ==
    pc \in CyclePcs
        => /\ lastWake = "timer" => waited = Interval
           /\ lastWake = "signal" => sigsInWait > 0

\* C10 amended: the timer is created anew for each wait, the listener once
\* before the loop: a wait is ended only by its own timer having run the whole
\* interval, or by a signal delivered during that wait or delivered before it
\* and not yet received; a signal delivered while a rotation cycle is in
\* progress ends the following wait at once.
C10_WaitEndedBy ==
    /\ pc \in CyclePcs
        => /\ lastWake = "timer" => waited = Interval
           /\ lastWake = "signal" => (sigsInWait > 0 \/ carried)
    /\ (pc = "waiting" /\ waited = 0 /\ sigsInWait = 0)
        => (sigPending <=> carried)
    /\ (pc = "waiting" /\ sigsInCycle > 0 /\ sigsInWait = 0) => sigPending

\* C10 witness: a cycle started by a signal that was delivered during the
\* cycle before, the wait between them ended with none of its interval run.
C10_Witness ==
    /\ pc \in CyclePcs
    /\ lastWake = "signal"
    /\ sigsInWait = 0
    /\ carried
    /\ waited = 0

\* C11: with the current selection unknown, the values select_random_image
\* may return for a non-empty catalog are exactly the catalog's elements:
\* each of them is a possible result and nothing else is.
C11_UnknownCurrentSelectsAny ==
    /\ (pc = "select" /\ current_wallpaper = NoPath /\ images # << >>)
            => select_random_image(images, current_wallpaper) = Range(images)
    /\ (pc = "decide" /\ current_wallpaper = NoPath /\ images # << >>)
            => new_wallpaper \in Range(images)

\* C11 witness: the current selection unknown, a catalog of several distinct
\* images, and the last of them selected.
C11_Witness ==
    /\ pc = "decide"
    /\ current_wallpaper = NoPath
    /\ Distinct(images) >= 3
    /\ new_wallpaper = images[Len(images)]
    /\ new_wallpaper # images[1]

\* C12 (as stated): after a successful query the probe's result is the
\* trimmed text that follows the marker in the first output line containing
\* the marker, and it is unknown exactly when no output line contains it.
C12_AsStated ==
    (pc = "select" /\ last_probe = "ok")
        => current_wallpaper = query_reports

\* the file a path leads to, with symbolic links resolved
FileOf(path) ==
    CASE path = "pics/album/c.gif" -> "pics/sub/c.gif"
      [] path = "pics/album/README" -> "pics/sub/README"
      [] OTHER -> path

\* the files with a recognised extension in the trees of the usable roots
RecognizedFiles(paths) ==
    UNION { { FileOf(en.path) : en \in {e \in Range(WalkDir(r)) : IsImageEntry(e)} }
            : r \in {q \in Range(paths) : FsExists(q) /\ FsIsDir(q)} }

\* C13 (as stated): discover_images returns exactly as many paths as the
\* roots' trees hold files with a recognised extension, whatever else the
\* trees hold and however the files are reached; no file is returned twice.
C13_AsStated ==
    pc # "start"
        => /\ Len(images) = Cardinality(RecognizedFiles(image_paths))
           /\ \A i, j \in 1..Len(images) :
                FileOf(images[i]) = FileOf(images[j]) => i = j

\* C14: in a cycle with a non-empty catalog the apply step is skipped exactly
\* when the selected image equals the probed current image, and that is the
\* case exactly when every catalog entry equals the probed current image; in
\* every other case (an unknown current included) the setter is invoked with
\* the selected image, once, and the cycle ends when it returns.
C14_SkipExactlyWhenUnchanged ==
    [][ /\ (pc = "decide" /\ pc' # "decide" /\ images # << >>)
            => /\ (new_wallpaper = current_wallpaper)
                    <=> (\A i \in 1..Len(images) : images[i] = current_wallpaper)
               /\ (new_wallpaper = current_wallpaper)
                    => (pc' = "waiting" /\ tool_calls' = << "query" >>)
               /\ (new_wallpaper # current_wallpaper)
                    => (pc' = "apply" /\ new_wallpaper' = new_wallpaper)
        /\ (pc = "apply" /\ tool_calls' # tool_calls)
            => /\ pc' = "waiting"
               /\ tool_calls' = << "query", "img" >>
      ]_vars

\* C14 witness: a cycle over a catalog of two entries ended without the setter
\* having run, the selection having been the probed current image.
C14_Witness ==
    /\ pc = "waiting"
    /\ Len(images) = 2
    /\ tool_calls = << "query" >>

\* the values the probe can hand to select_random_image
CurrentValues == {NoPath, "pics/"} \cup ReportedPaths \cup Range(images)

\* C15: for a non-empty catalog select_random_image returns an image of the
\* catalog, never none, whatever current is (unknown, in the catalog or not in
\* it); hence after startup a cycle never decides with no selection (the
\* "could not select" branch is not taken).
C15_SelectNoneOnlyIfEmpty ==
    /\ images # << >>
        => \A current \in CurrentValues :
              select_random_image(images, current) \subseteq Range(images)
    /\ pc = "decide" => new_wallpaper # NoPath
    /\ pc \in CyclePcs => current_wallpaper \in CurrentValues

\* C15 witness: the selection made from a catalog with a repeated path whose
\* every entry is the known current image.
C15_Witness ==
    /\ pc = "decide"
    /\ Len(images) >= 2
    /\ Distinct(images) = 1
    /\ current_wallpaper \in Range(images)
    /\ new_wallpaper = current_wallpaper

\* C16: one rotation cycle is started at startup, before the first wait, and
\* one per wait that ends: once the listener is registered, the cycles started
\* are one more than the waits ended; none has started before; and a cycle
\* starts only in the startup step or in the step that ends a wait.
C16_CyclePerTrigger ==
    /\ [](pc \in ListeningPcs => cyclesMinusWaits = 1)
    /\ [](pc \notin ListeningPcs => cyclesMinusWaits = 0)
    /\ [][ /\ Started = 1 => (pc = "register" \/ Ended = 1)
           /\ Ended = 1 => Started = 1
           /\ pc' = "waiting" => pc \in CyclePcs \cup {"waiting"} ]_vars

\* C16 witness: the second wait after startup: a cycle started by a trigger
\* has ended.
C16_Witness ==
    /\ pc = "waiting"
    /\ lastWake = "timer"
    /\ cyclesMinusWaits = 1

\* C17: cycles do not overlap and each consists of one run of the query tool
\* followed by at most one run of the setter: while a cycle is in progress
\* no cycle starts and no time of a wait passes, and the tool runs of the
\* cycle are the query alone until the setter is reached; the wait begins
\* only after the runs have returned.
C17_OneCycleAtATime ==
    /\ [](pc = "probe" => tool_calls = << >>)
    /\ [](pc \in {"select", "decide", "apply"} => tool_calls = << "query" >>)
    /\ [](pc = "waiting" => tool_calls \in { << "query" >>, << "query", "img" >> })
    /\ [][ (pc \in CyclePcs)
            => /\ Started = 0
               /\ <<deadline, waited>> # <<deadline', waited'>> => pc' = "waiting"
               /\ Len(tool_calls') <= Len(tool_calls) + 1
      ]_vars

\* C17 witness: a cycle of a query and a failed apply has ended, a signal
\* arrived while it ran, and the next cycle has not started.
C17_Witness ==
    /\ pc = "waiting"
    /\ tool_calls = << "query", "img" >>
    /\ last_apply \in ApplyFailures
    /\ sigsInCycle > 0
    /\ sigPending

\* C18: when the probe reports an image that is not in the catalog, every
\* catalog element is a possible selection and nothing else is, and the cycle
\* always goes on to invoke the setter with the selection.
C18_ForeignCurrent ==
    /\ []((/\ pc = "select"
           /\ current_wallpaper # NoPath
           /\ current_wallpaper \notin Range(images))
            => select_random_image(images, current_wallpaper) = Range(images))
    /\ [][ (/\ pc = "decide"
            /\ pc' # "decide"
            /\ current_wallpaper # NoPath
            /\ current_wallpaper \notin Range(images))
            => /\ new_wallpaper \in Range(images)
               /\ pc' = "apply"
               /\ new_wallpaper' = new_wallpaper
      ]_vars

\* C18 witness: the probe reported /tmp/other.png, the catalog holds several
\* images, the first of them was selected and the setter is being invoked.
C18_Witness ==
    /\ pc = "apply"
    /\ current_wallpaper = "/tmp/other.png"
    /\ Distinct(images) >= 3
    /\ new_wallpaper = images[1]

\* C19 (as stated): with at least two distinct images in the catalog, and the
\* query reporting the image most recently applied successfully, a successful
\* apply never sets the image that the previous successful apply set.
C19_AsStated ==
    [][ (/\ pc = "apply"
         /\ tool_calls' # tool_calls
         /\ last_apply' = "ok"
         /\ last_applied # NoPath
         /\ Distinct(images) >= 2)
            => new_wallpaper # last_applied
      ]_vars

\* C20: once the listener is registered the scheduler never leaves the loop,
\* and with a fair timer and tool invocations that return every wait is
\* followed by a rotation cycle and every rotation cycle by a wait, whatever
\* the signals do and whatever the probe and the apply return.  (The steps
\* of the loop lead from a wait to a cycle or a wait and from a cycle to a
\* cycle or a wait only, so it is enough that neither lasts forever.)
C20_NeverStopsRotating ==
    /\ [][ (pc \in ListeningPcs) => pc' \in ListeningPcs ]_vars
    /\ []<>(pc # "waiting")
    /\ []<>(pc \notin CyclePcs)

\* C20 witness: a cycle started by the timer, with no signal pending before
\* it or delivered during it, has ended in a wait although its apply failed.
C20_Witness ==
    /\ pc = "waiting"
    /\ lastWake = "timer"
    /\ sigsInCycle = 0
    /\ ~sigPending
    /\ ~carried
    /\ last_apply \in ApplyFailures
    /\ tool_calls = << "query", "img" >>

====
